---- MODULE Spec2Model ----
(***************************************************************************)
(* Model of the Ethereum consensus module of voyager                       *)
(* (voyager/modules/consensus/ethereum/src/main.rs).                       *)
(*                                                                         *)
(* The module is constructed once by ConsensusModule::new, which binds a   *)
(* chain id and a preset, and then serves query_latest_height,             *)
(* query_latest_timestamp and beacon_slot_of_execution_block_number by     *)
(* calling two upstream endpoints: the execution-layer provider and the    *)
(* beacon API client.  A call ends in one of three ways: Ok(value),        *)
(* Err(error object) returned to the caller, or a panic (unwrap/expect on  *)
(* a failed or absent upstream answer).                                    *)
(***************************************************************************)
EXTENDS Integers, Sequences, FiniteSets, TLC

\* ---------------------------------------------------------------- bounds
MaxHeight == 2
MaxSlot == 1
MaxChainId == 11

\* ------------------------------------------------------------ value sets
ChainIdNums == {1, MaxChainId}
Presets == {"mainnet", "minimal"}
ConsensusTypes == {"ethereum", "cometbls"}
Roots == {"R1", "R2"}
NoRoot == "no_root"
TimeSteps == {1, 2}
TransportErrors == {"connection refused"}
NoFailure == "none"
Failures == {NoFailure} \cup TransportErrors
Slots == 0 .. MaxSlot
BlockNumbers == 0 .. MaxHeight

NoValue == "no_value"
NoModule == [bound |-> FALSE, chain_id |-> "", chain_spec |-> ""]
Idle == [op |-> "idle"]

\* ------------------------------------------------- results of a call
Ok(v) == [kind |-> "ok", value |-> v, cause |-> <<>>]

Err(cause) == [kind |-> "err", value |-> NoValue, cause |-> cause]

Panic(msg) == [kind |-> "panic", value |-> NoValue, cause |-> <<msg>>]

\* ErrorObject::owned(-1, message, None)
ErrorObject(code, message) == Err(<<"rpc", code>> \o message)

\* ---------------------------------------- answers of an upstream call
Answer(body) == [status |-> "ok", body |-> body]

Failed(e) == [status |-> "fail", body |-> e]

Reply(failure, body) == IF failure = NoFailure THEN Answer(body) ELSE Failed(failure)

Call(name, arg, resp) == [call |-> name, arg |-> arg, resp |-> resp]

ExecutionCalls == {"on_builtin", "get_chain_id", "get_block_number", "get_block"}
ConsensusCalls == {"BeaconApiClient::new", "spec", "finality_update", "block"}

\* u64::to_string: the decimal digits of n
Digit(d) == CASE d = 0 -> "0" [] d = 1 -> "1" [] d = 2 -> "2" [] d = 3 -> "3"
              [] d = 4 -> "4" [] d = 5 -> "5" [] d = 6 -> "6" [] d = 7 -> "7"
              [] d = 8 -> "8" [] d = 9 -> "9"

RECURSIVE U64ToString(_)
U64ToString(n) == IF n < 10 THEN Digit(n) ELSE U64ToString(n \div 10) \o Digit(n % 10)

\* Timestamp::from_secs / from_nanos: an instant as whole seconds plus a
\* remainder of nanoseconds.
NanosPerSec == 1000000000

TimestampFromSecs(secs) == [secs |-> secs, nanos |-> 0]

TimestampFromNanos(n) == [secs |-> n \div NanosPerSec, nanos |-> n % NanosPerSec]

\* Height::new(n): revision-less height
HeightNew(n) == [revision |-> 0, height |-> n]

VARIABLES blocks, finalized, el_chain_id, cl_preset,
          phase, module, newCall, last, seenFinalized

vars == <<blocks, finalized, el_chain_id, cl_preset,
          phase, module, newCall, last, seenFinalized>>

\* ----------------------------------------------- the upstream endpoints
\* blocks[i] is execution block number i-1
HeadNumber == Len(blocks) - 1

NoBlock == [present |-> FALSE, number |-> 0, timestamp |-> 0, parent_beacon_block_root |-> NoRoot]

Block(n) == [present |-> TRUE, number |-> n, timestamp |-> blocks[n + 1].timestamp,
             parent_beacon_block_root |-> blocks[n + 1].root]

\* provider.get_block(number): Some(block) or None
ProviderGetBlock(n) == IF n <= HeadNumber THEN Block(n) ELSE NoBlock

\* provider.get_block(BlockNumberOrTag::Latest)
ProviderGetLatestBlock == Block(HeadNumber)

\* provider.get_block_number()
ProviderGetBlockNumber == HeadNumber

\* beacon_api_client.finality_update(): the finalized header's execution payload header
FinalityUpdate == [finalized_header |->
                     [execution |-> [block_number |-> finalized,
                                     timestamp |-> blocks[finalized + 1].timestamp]]]

\* ------------------------------------------------------ ConsensusModule::new
\* info.ensure_chain_id(chain_id): the orchestrator's expected id against the reported one
EnsureChainId(info, chain_id) ==
    IF info.chain_id = chain_id THEN Ok(chain_id)
    ELSE Err(<<"chain id mismatch", info.chain_id, chain_id>>)

\* info.ensure_consensus_type(ConsensusType::ETHEREUM)
EnsureConsensusType(info, consensus_type) ==
    IF info.consensus_type = consensus_type THEN Ok(consensus_type)
    ELSE Err(<<"consensus type mismatch", info.consensus_type, consensus_type>>)

Done(out, calls, m) == [out |-> out, calls |-> calls, module |-> m]

\* new() with the chain id checked only after the beacon spec was consulted
NewModule_ChainIdCheckedLast(config, info, onBuiltin, getChainId, beaconNew, spec) ==
    LET c1 == <<Call("on_builtin", "rpc_url", onBuiltin)>>
        c2 == c1 \o <<Call("get_chain_id", "", getChainId)>>
        chain_id == U64ToString(getChainId.body)
        c3 == c2 \o <<Call("BeaconApiClient::new", "beacon_rpc_url", beaconNew)>>
        c4 == c3 \o <<Call("spec", "", spec)>>
    IN  IF onBuiltin.status = "fail"
          THEN Done(Err(<<"upstream", onBuiltin.body>>), c1, NoModule)
        ELSE IF getChainId.status = "fail"
          THEN Done(Err(<<"upstream", getChainId.body>>), c2, NoModule)
        ELSE IF beaconNew.status = "fail"
          THEN Done(Err(<<"upstream", beaconNew.body>>), c3, NoModule)
        ELSE IF spec.status = "fail"
          THEN Done(Panic("called Result::unwrap() on an Err value"), c4, NoModule)
        ELSE IF spec.body.preset_base # config.chain_spec
          THEN Done(Err(<<"incorrect chain spec", config.chain_spec, spec.body.preset_base>>),
                    c4, NoModule)
        ELSE IF EnsureChainId(info, chain_id).kind = "err"
          THEN Done(EnsureChainId(info, chain_id), c4, NoModule)
        ELSE IF EnsureConsensusType(info, "ethereum").kind = "err"
          THEN Done(EnsureConsensusType(info, "ethereum"), c4, NoModule)
        ELSE Done(Ok("module"), c4,
                  [bound |-> TRUE, chain_id |-> chain_id,
                   chain_spec |-> spec.body.preset_base])

\* new() without the comparison of the observed preset against the configuration
NewModule_NoPresetCheck(config, info, onBuiltin, getChainId, beaconNew, spec) ==
    LET c1 == <<Call("on_builtin", "rpc_url", onBuiltin)>>
        c2 == c1 \o <<Call("get_chain_id", "", getChainId)>>
        chain_id == U64ToString(getChainId.body)
        c3 == c2 \o <<Call("BeaconApiClient::new", "beacon_rpc_url", beaconNew)>>
        c4 == c3 \o <<Call("spec", "", spec)>>
    IN  IF onBuiltin.status = "fail"
          THEN Done(Err(<<"upstream", onBuiltin.body>>), c1, NoModule)
        ELSE IF getChainId.status = "fail"
          THEN Done(Err(<<"upstream", getChainId.body>>), c2, NoModule)
        ELSE IF EnsureChainId(info, chain_id).kind = "err"
          THEN Done(EnsureChainId(info, chain_id), c2, NoModule)
        ELSE IF EnsureConsensusType(info, "ethereum").kind = "err"
          THEN Done(EnsureConsensusType(info, "ethereum"), c2, NoModule)
        ELSE IF beaconNew.status = "fail"
          THEN Done(Err(<<"upstream", beaconNew.body>>), c3, NoModule)
        ELSE IF spec.status = "fail"
          THEN Done(Panic("called Result::unwrap() on an Err value"), c4, NoModule)
        ELSE Done(Ok("module"), c4,
                  [bound |-> TRUE, chain_id |-> chain_id,
                   chain_spec |-> spec.body.preset_base])

\* new(config, info), given the answers of the four upstream calls it may make
NewModule(config, info, onBuiltin, getChainId, beaconNew, spec) ==
    LET c1 == <<Call("on_builtin", "rpc_url", onBuiltin)>>
        c2 == c1 \o <<Call("get_chain_id", "", getChainId)>>
        chain_id == U64ToString(getChainId.body)
        c3 == c2 \o <<Call("BeaconApiClient::new", "beacon_rpc_url", beaconNew)>>
        c4 == c3 \o <<Call("spec", "", spec)>>
    IN  IF onBuiltin.status = "fail"
          THEN Done(Err(<<"upstream", onBuiltin.body>>), c1, NoModule)
        ELSE IF getChainId.status = "fail"
          THEN Done(Err(<<"upstream", getChainId.body>>), c2, NoModule)
        ELSE IF EnsureChainId(info, chain_id).kind = "err"
          THEN Done(EnsureChainId(info, chain_id), c2, NoModule)
        ELSE IF EnsureConsensusType(info, "ethereum").kind = "err"
          THEN Done(EnsureConsensusType(info, "ethereum"), c2, NoModule)
        ELSE IF beaconNew.status = "fail"
          THEN Done(Err(<<"upstream", beaconNew.body>>), c3, NoModule)
        ELSE IF spec.status = "fail"
          THEN Done(Panic("called Result::unwrap() on an Err value"), c4, NoModule)
        ELSE IF spec.body.preset_base # config.chain_spec
          THEN Done(Err(<<"incorrect chain spec", config.chain_spec, spec.body.preset_base>>),
                    c4, NoModule)
        ELSE Done(Ok("module"), c4,
                  [bound |-> TRUE, chain_id |-> chain_id,
                   chain_spec |-> spec.body.preset_base])

\* ------------------------------------------------------ query_latest_height
Returned(out, calls) == [out |-> out, calls |-> calls]

\* query_latest_height that polls the provider whatever the flag
QueryLatestHeight_IgnoresFlag(fin, finalityUpdate, getBlockNumber) ==
    LET c == <<Call("get_block_number", "", getBlockNumber)>>
    IN  IF getBlockNumber.status = "ok"
          THEN Returned(Ok(HeightNew(getBlockNumber.body)), c)
          ELSE Returned(Panic("called Result::unwrap() on an Err value"), c)

\* query_latest_height with the two branches exchanged
QueryLatestHeight_Swapped(fin, finalityUpdate, getBlockNumber) ==
    IF ~fin
      THEN LET c == <<Call("finality_update", "", finalityUpdate)>>
           IN  IF finalityUpdate.status = "ok"
                 THEN Returned(Ok(HeightNew(
                          finalityUpdate.body.finalized_header.execution.block_number)), c)
                 ELSE Returned(ErrorObject(-1, <<finalityUpdate.body>>), c)
      ELSE LET c == <<Call("get_block_number", "", getBlockNumber)>>
           IN  IF getBlockNumber.status = "ok"
                 THEN Returned(Ok(HeightNew(getBlockNumber.body)), c)
                 ELSE Returned(Panic("called Result::unwrap() on an Err value"), c)

QueryLatestHeight(fin, finalityUpdate, getBlockNumber) ==
    IF fin
      THEN LET c == <<Call("finality_update", "", finalityUpdate)>>
           IN  IF finalityUpdate.status = "ok"
                 THEN Returned(Ok(HeightNew(
                          finalityUpdate.body.finalized_header.execution.block_number)), c)
                 ELSE Returned(ErrorObject(-1, <<finalityUpdate.body>>), c)
      ELSE LET c == <<Call("get_block_number", "", getBlockNumber)>>
           IN  IF getBlockNumber.status = "ok"
                 THEN Returned(Ok(HeightNew(getBlockNumber.body)), c)
                 ELSE Returned(Panic("called Result::unwrap() on an Err value"), c)

\* --------------------------------------------------- query_latest_timestamp
\* query_latest_timestamp that takes the head block's timestamp for nanoseconds
QueryLatestTimestamp_HeadAsNanos(fin, finalityUpdate, getBlock) ==
    IF fin
      THEN LET c == <<Call("finality_update", "", finalityUpdate)>>
           IN  IF finalityUpdate.status = "ok"
                 THEN Returned(Ok(TimestampFromSecs(
                          finalityUpdate.body.finalized_header.execution.timestamp)), c)
                 ELSE Returned(ErrorObject(-1, <<finalityUpdate.body>>), c)
      ELSE LET c == <<Call("get_block", "latest", getBlock)>>
           IN  IF getBlock.status = "fail"
                 THEN Returned(Panic("called Result::unwrap() on an Err value"), c)
               ELSE IF ~getBlock.body.present
                 THEN Returned(Panic("called Option::unwrap() on a None value"), c)
               ELSE Returned(Ok(TimestampFromNanos(getBlock.body.timestamp)), c)

QueryLatestTimestamp(fin, finalityUpdate, getBlock) ==
    IF fin
      THEN LET c == <<Call("finality_update", "", finalityUpdate)>>
           IN  IF finalityUpdate.status = "ok"
                 THEN Returned(Ok(TimestampFromSecs(
                          finalityUpdate.body.finalized_header.execution.timestamp)), c)
                 ELSE Returned(ErrorObject(-1, <<finalityUpdate.body>>), c)
      ELSE LET c == <<Call("get_block", "latest", getBlock)>>
           IN  IF getBlock.status = "fail"
                 THEN Returned(Panic("called Result::unwrap() on an Err value"), c)
               ELSE IF ~getBlock.body.present
                 THEN Returned(Panic("called Option::unwrap() on a None value"), c)
               ELSE Returned(Ok(TimestampFromSecs(getBlock.body.timestamp)), c)

\* ------------------------------------ beacon_slot_of_execution_block_number
\* the slot resolution reading the back-reference of the requested block itself
BeaconSlot_OfSameBlock(block_number, getBlock, beaconBlock) ==
    LET fetched == getBlock[block_number]
        c1 == <<Call("get_block", block_number, fetched)>>
        root == fetched.body.parent_beacon_block_root
        c2 == c1 \o <<Call("block", root, beaconBlock[root])>>
    IN  IF fetched.status = "fail"
          THEN Returned(ErrorObject(-1, <<"error fetching block", fetched.body>>), c1)
        ELSE IF ~fetched.body.present
          THEN Returned(Panic("block should exist"), c1)
        ELSE IF root = NoRoot
          THEN Returned(Panic("parent beacon block root should exist"), c1)
        ELSE IF beaconBlock[root].status = "fail"
          THEN Returned(ErrorObject(-1, <<"error fetching block", beaconBlock[root].body>>), c2)
        ELSE Returned(Ok(beaconBlock[root].body.data.message.slot), c2)

\* getBlock[k] is the provider's answer for block number k, beaconBlock[r] the
\* beacon API's answer for block root r.
BeaconSlotOfExecutionBlockNumber(block_number, getBlock, beaconBlock) ==
    LET fetched == getBlock[block_number + 1]
        c1 == <<Call("get_block", block_number + 1, fetched)>>
        root == fetched.body.parent_beacon_block_root
        c2 == c1 \o <<Call("block", root, beaconBlock[root])>>
    IN  IF fetched.status = "fail"
          THEN Returned(ErrorObject(-1, <<"error fetching block", fetched.body>>), c1)
        ELSE IF ~fetched.body.present
          THEN Returned(Panic("block should exist"), c1)
        ELSE IF root = NoRoot
          THEN Returned(Panic("parent beacon block root should exist"), c1)
        ELSE IF beaconBlock[root].status = "fail"
          THEN Returned(ErrorObject(-1, <<"error fetching block", beaconBlock[root].body>>), c2)
        ELSE Returned(Ok(beaconBlock[root].body.data.message.slot), c2)

\* =========================================================== state machine
Genesis == [timestamp |-> 0, root |-> NoRoot]

Init ==
    /\ blocks = <<Genesis>>
    /\ finalized = 0
    /\ el_chain_id \in ChainIdNums
    /\ cl_preset \in Presets
    /\ phase = "start"
    /\ module = NoModule
    /\ newCall = Idle
    /\ last = Idle
    /\ seenFinalized = -1

\* ---- the chain and the endpoints evolve on their own
\* the program observes its upstreams while it is alive and between two calls
Observing == phase \in {"start", "running"} /\ last.op = "idle"

ProduceBlock ==
    /\ Observing
    /\ HeadNumber < MaxHeight
    /\ \E root \in Roots \cup {NoRoot}, dt \in TimeSteps :
         blocks' = Append(blocks, [timestamp |-> blocks[Len(blocks)].timestamp + dt,
                                   root |-> root])
    /\ UNCHANGED <<finalized, el_chain_id, cl_preset, phase, module, newCall, last,
                   seenFinalized>>

Reorg ==
    /\ Observing
    /\ \E h \in finalized .. (HeadNumber - 1) : blocks' = SubSeq(blocks, 1, h + 1)
    /\ UNCHANGED <<finalized, el_chain_id, cl_preset, phase, module, newCall, last,
                   seenFinalized>>

Finalize ==
    /\ Observing
    /\ \E f \in (finalized + 1) .. HeadNumber : finalized' = f
    /\ UNCHANGED <<blocks, el_chain_id, cl_preset, phase, module, newCall, last,
                   seenFinalized>>

EndpointsChange ==
    /\ phase = "running" /\ last.op = "idle"
    /\ \E c \in ChainIdNums, p \in Presets :
         /\ <<c, p>> # <<el_chain_id, cl_preset>>
         /\ el_chain_id' = c
         /\ cl_preset' = p
    /\ UNCHANGED <<blocks, finalized, phase, module, newCall, last, seenFinalized>>

\* ---- construction
New ==
    /\ phase = "start"
    /\ \E chain_spec \in Presets, expected \in {U64ToString(c) : c \in ChainIdNums},
          ctype \in ConsensusTypes, f1 \in Failures, f2 \in Failures,
          f3 \in Failures, f4 \in Failures :
         LET config == [chain_spec |-> chain_spec]
             info == [chain_id |-> expected, consensus_type |-> ctype]
             r == NewModule(config, info,
                            Reply(f1, "provider"),
                            Reply(f2, el_chain_id),
                            Reply(f3, "client"),
                            Reply(f4, [preset_base |-> cl_preset]))
         IN  /\ newCall' = [op |-> "new", config |-> config, info |-> info,
                            failures |-> [on_builtin |-> f1, get_chain_id |-> f2,
                                          beacon_new |-> f3, spec |-> f4],
                            reported |-> [chain_id |-> el_chain_id, preset_base |-> cl_preset],
                            out |-> r.out, calls |-> r.calls]
             /\ module' = r.module
             /\ phase' = CASE r.out.kind = "ok" -> "running"
                           [] r.out.kind = "err" -> "failed"
                           [] r.out.kind = "panic" -> "aborted"
    /\ UNCHANGED <<blocks, finalized, el_chain_id, cl_preset, last, seenFinalized>>

\* ---- queries
Max(a, b) == IF a >= b THEN a ELSE b

Query(op, fin, n, el, cl, slotOf, r) ==
    [op |-> op, finalized |-> fin, block_number |-> n,
     el_failure |-> el, cl_failure |-> cl, slotOf |-> slotOf,
     out |-> r.out, calls |-> r.calls]

LatestHeight ==
    /\ phase = "running" /\ last.op = "idle"
    /\ \E fin \in BOOLEAN, el \in Failures, cl \in Failures :
         LET r == QueryLatestHeight(fin, Reply(cl, FinalityUpdate),
                                    Reply(el, ProviderGetBlockNumber))
         IN  /\ last' = Query("query_latest_height", fin, 0, el, cl, <<>>, r)
             /\ seenFinalized' = IF fin /\ r.out.kind = "ok"
                                   THEN Max(seenFinalized, r.out.value.height)
                                   ELSE seenFinalized
    /\ UNCHANGED <<blocks, finalized, el_chain_id, cl_preset, phase, module, newCall>>

LatestTimestamp ==
    /\ phase = "running" /\ last.op = "idle"
    /\ \E fin \in BOOLEAN, el \in Failures, cl \in Failures :
         LET r == QueryLatestTimestamp(fin, Reply(cl, FinalityUpdate),
                                       Reply(el, ProviderGetLatestBlock))
         IN  last' = Query("query_latest_timestamp", fin, 0, el, cl, <<>>, r)
    /\ UNCHANGED <<blocks, finalized, el_chain_id, cl_preset, phase, module, newCall,
                   seenFinalized>>

BeaconSlot ==
    /\ phase = "running" /\ last.op = "idle"
    /\ \E n \in BlockNumbers, el \in Failures, cl \in Failures, slotOf \in [Roots -> Slots] :
         LET getBlock == [k \in 0 .. (MaxHeight + 1) |-> Reply(el, ProviderGetBlock(k))]
             beaconBlock == [x \in Roots \cup {NoRoot} |->
                               IF x = NoRoot THEN Failed("not found")
                               ELSE Reply(cl, [data |-> [message |-> [slot |-> slotOf[x]]]])]
             r == BeaconSlotOfExecutionBlockNumber(n, getBlock, beaconBlock)
         IN  last' = Query("beacon_slot_of_execution_block_number", FALSE, n, el, cl, slotOf, r)
    /\ UNCHANGED <<blocks, finalized, el_chain_id, cl_preset, phase, module, newCall,
                   seenFinalized>>

\* the response is handed to the caller and dropped
Respond ==
    /\ last.op # "idle"
    /\ last' = Idle
    /\ UNCHANGED <<blocks, finalized, el_chain_id, cl_preset, phase, module, newCall,
                   seenFinalized>>

Next ==
    \/ ProduceBlock
    \/ Reorg
    \/ Finalize
    \/ EndpointsChange
    \/ New
    \/ LatestHeight
    \/ LatestTimestamp
    \/ BeaconSlot
    \/ Respond

Spec == Init /\ [][Next]_vars

\* ================================================================== claims
IsHeight == last.op = "query_latest_height"
IsTimestamp == last.op = "query_latest_timestamp"
IsSlot == last.op = "beacon_slot_of_execution_block_number"
CallNames(c) == {c.calls[i].call : i \in DOMAIN c.calls}

\* C1: query_latest_height(true) calls only finality_update and returns the
\* block_number of its finalized execution header; query_latest_height(false)
\* calls only get_block_number and returns the provider's block number.
C1_HeightSourceFollowsFlag ==
    IsHeight =>
      IF last.finalized
        THEN /\ CallNames(last) = {"finality_update"}
             /\ last.cl_failure = NoFailure =>
                  last.out = Ok(HeightNew(FinalityUpdate.finalized_header.execution.block_number))
        ELSE /\ CallNames(last) = {"get_block_number"}
             /\ last.el_failure = NoFailure =>
                  last.out = Ok(HeightNew(ProviderGetBlockNumber))

C1_Witness ==
    /\ IsHeight /\ last.finalized /\ last.out.kind = "ok"
    /\ last.out.value.height = 1
    /\ HeadNumber = 2

C3_SlotThroughNextBlock ==
    IsSlot =>
      LET n == last.block_number
      IN  /\ \A i \in DOMAIN last.calls :
                last.calls[i].call = "get_block" => last.calls[i].arg = n + 1
          /\ ( /\ last.el_failure = NoFailure /\ last.cl_failure = NoFailure
               /\ n + 1 <= HeadNumber
               /\ blocks[n + 2].root # NoRoot )
             => last.out = Ok(last.slotOf[blocks[n + 2].root])

C3_Witness ==
    /\ IsSlot /\ last.block_number = 1 /\ HeadNumber = 2
    /\ blocks[2].root = "R1" /\ blocks[3].root = "R2"
    /\ last.slotOf["R1"] = 0 /\ last.slotOf["R2"] = 1
    /\ last.out = Ok(1)

\* C4: when no block exists at N+1, beacon_slot_of_execution_block_number(N)
\* returns an error value to the caller and makes no consensus-layer call.
C4_BlockNotFoundReturned ==
    (IsSlot /\ last.el_failure = NoFailure /\ last.block_number + 1 > HeadNumber)
      => /\ last.out.kind = "err"
         /\ CallNames(last) \cap ConsensusCalls = {}

\* C5: when block N+1 exists without a back-reference,
\* beacon_slot_of_execution_block_number(N) reports an error to the caller,
\* returns no slot and makes no consensus-layer call.
C5_MissingBackReferenceReported ==
    ( /\ IsSlot /\ last.el_failure = NoFailure
      /\ last.block_number + 1 <= HeadNumber
      /\ blocks[last.block_number + 2].root = NoRoot )
      => /\ last.out.kind = "err"
         /\ CallNames(last) \cap ConsensusCalls = {}

\* C6: new() returns the chain-id-mismatch error, without consulting the beacon
\* spec, when the reported chain id differs from the expected one, and returns
\* the incorrect-chain-spec error naming the configured and the observed
\* preset when those differ; no module is produced in either case.
C6_MismatchFailsConstruction ==
    newCall.op = "new" =>
      LET f == newCall.failures
          reported_id == U64ToString(newCall.reported.chain_id)
          observed == newCall.reported.preset_base
      IN  /\ ( /\ f.on_builtin = NoFailure /\ f.get_chain_id = NoFailure
               /\ reported_id # newCall.info.chain_id )
             => /\ newCall.out = Err(<<"chain id mismatch", newCall.info.chain_id, reported_id>>)
                /\ "spec" \notin CallNames(newCall)
                /\ ~module.bound
          /\ ( /\ \A k \in DOMAIN f : f[k] = NoFailure
               /\ reported_id = newCall.info.chain_id
               /\ newCall.info.consensus_type = "ethereum"
               /\ observed # newCall.config.chain_spec )
             => /\ newCall.out = Err(<<"incorrect chain spec", newCall.config.chain_spec,
                                       observed>>)
                /\ ~module.bound

C6_Witness ==
    /\ newCall.op = "new"
    /\ newCall.config.chain_spec = "mainnet"
    /\ newCall.reported.preset_base = "minimal"
    /\ newCall.out = Err(<<"incorrect chain spec", "mainnet", "minimal">>)
    /\ phase = "failed"

\* C7: a failed upstream call of query_latest_height or query_latest_timestamp
\* is returned to the caller as an error value carrying the upstream cause, on
\* the finalized and on the latest path.
C7_QueryFailureReturned ==
    (IsHeight \/ IsTimestamp) =>
      LET failure == IF last.finalized THEN last.cl_failure ELSE last.el_failure
      IN  failure # NoFailure =>
            /\ last.out.kind = "err"
            /\ \E i \in DOMAIN last.out.cause : last.out.cause[i] = failure

\* C8: when an upstream cannot be reached during new(), new() returns an error
\* value and no module exists.
C8_UnreachableUpstreamReturned ==
    ( /\ newCall.op = "new"
      /\ \E i \in DOMAIN newCall.calls : newCall.calls[i].resp.status = "fail" )
      => /\ newCall.out.kind = "err"
         /\ ~module.bound

C10_BoundIdentityFixed ==
    phase = "running" =>
      /\ module.bound
      /\ module.chain_id = U64ToString(newCall.reported.chain_id)
      /\ module.chain_spec = newCall.reported.preset_base
      /\ module.chain_spec = newCall.config.chain_spec
      /\ last.op # "idle" => CallNames(last) \cap {"get_chain_id", "spec"} = {}

C10_Witness ==
    /\ phase = "running"
    /\ U64ToString(el_chain_id) # module.chain_id
    /\ cl_preset # module.chain_spec
    /\ last.op # "idle" /\ last.out.kind = "ok"

====
